---- MODULE Spec2Model ----
(***************************************************************************)
(* A model of src/template/algorithm/src/implementation/algorithm.py:      *)
(* the name anonymizer (anonymize_text), the nested and the flat           *)
(* extractors (filter_and_chunk_json_data, filter_and_chunk_csv_data), the *)
(* unit writer (write_chunks_to_files) and the dispatcher                  *)
(* (algorithm_main).                                                       *)
(*                                                                         *)
(* A Python str is a sequence of one-character strings, so that matching,  *)
(* formatting and serialisation are computed character by character.       *)
(* A dict read from JSON is a function whose DOMAIN is its key set; an     *)
(* ordered dict that is written out (metadata, a CSV row) is a sequence of *)
(* <<key, value>> pairs in insertion order.                                *)
(***************************************************************************)
EXTENDS Integers, Sequences, FiniteSets, TLC

(***************************************************************************)
(* Characters                                                              *)
(***************************************************************************)
UPPER == <<"A","B","C","D","E","F","G","H","I","J","K","L","M",
           "N","O","P","Q","R","S","T","U","V","W","X","Y","Z">>

LOWER == <<"a","b","c","d","e","f","g","h","i","j","k","l","m",
           "n","o","p","q","r","s","t","u","v","w","x","y","z">>

DIGITS == <<"0","1","2","3","4","5","6","7","8","9">>

Range(s) == {s[k] : k \in DOMAIN s}

\* re's \w on str patterns: alphanumerics and the underscore.
WordChars == Range(UPPER) \cup Range(LOWER) \cup Range(DIGITS) \cup {"_"}

IsWordChar(c) == c \in WordChars

LowerOf == [c \in Range(UPPER) |-> LOWER[CHOOSE j \in DOMAIN UPPER : UPPER[j] = c]]

\* str.lower() / re.IGNORECASE folding of one character.
Lower(c) == IF c \in DOMAIN LowerOf THEN LowerOf[c] ELSE c

LowerStr(s) == [k \in DOMAIN s |-> Lower(s[k])]

(***************************************************************************)
(* Module constants of algorithm.py                                        *)
(***************************************************************************)
OUTPUT_DIR ==
  <<"f","i","l","t","e","r","e","d","_","a","n","d","_",
    "c","h","u","n","k","e","d","_","d","a","t","a">>

ANONYMIZATION_PLACEHOLDER ==
  <<"[","A","N","O","N","Y","M","I","Z","E","D","_","P","E","R","S","O","N","]">>

\* The literal 'N/A' used as the default of dict.get.
NA == <<"N","/","A">>

(***************************************************************************)
(* anonymize_text                                                          *)
(***************************************************************************)
\* \b at offset p of t (0 <= p <= Len(t)): exactly one of the two
\* neighbouring positions holds a word character; outside the string counts
\* as a non-word character.
WordBoundary(t, p) ==
  LET before == p > 0 /\ IsWordChar(t[p])
      after  == p < Len(t) /\ IsWordChar(t[p + 1])
  IN  before # after

\* The pattern r'\b' + re.escape(name) + r'\b' with re.IGNORECASE matches
\* at offset p: name is matched literally, character by character.
MatchAt(t, p, name) ==
  /\ p + Len(name) <= Len(t)
  /\ WordBoundary(t, p)
  /\ \A k \in 1..Len(name) : Lower(t[p + k]) = Lower(name[k])
  /\ WordBoundary(t, p + Len(name))

\* The offsets of t at which the pattern matches.
Matches(t, name) == {q \in 0..Len(t) : MatchAt(t, q, name)}

\* One step of re.sub's scan at offset p, found being Matches(t, name): at a
\* match the placeholder is written and the scan goes on behind the match,
\* so matches never overlap; elsewhere the character is copied. An empty
\* match is replaced too; the scan then copies the next character and moves
\* on by one.
ScanStep(t, name, found, p) ==
  LET copied == IF p < Len(t) THEN <<t[p + 1]>> ELSE <<>> IN
  IF p \notin found THEN [out |-> copied, next |-> p + 1]
  ELSE IF Len(name) > 0
       THEN [out |-> ANONYMIZATION_PLACEHOLDER, next |-> p + Len(name)]
       ELSE [out |-> ANONYMIZATION_PLACEHOLDER \o copied, next |-> p + 1]

\* The scan from offset p (lo <= p) to the first offset behind hi: what it
\* writes and where it stops. The offsets lo..hi are scanned left to right,
\* the left half first and the right half from where the left half stopped.
RECURSIVE Scan(_, _, _, _, _, _)
Scan(t, name, found, lo, hi, p) ==
  IF p > hi THEN [out |-> <<>>, next |-> p]
  ELSE IF lo = hi THEN ScanStep(t, name, found, p)
  ELSE LET mid   == (lo + hi) \div 2
           left  == Scan(t, name, found, lo, mid, p)
           right == Scan(t, name, found, mid + 1, hi, left.next)
       IN  [out |-> left.out \o right.out, next |-> right.next]

\* re.sub(pattern, ANONYMIZATION_PLACEHOLDER, t, flags=re.IGNORECASE)
re_sub(name, t) == Scan(t, name, Matches(t, name), 0, Len(t), 0).out

RECURSIVE anonymize_text(_, _)
anonymize_text(text, sensitive_names) ==
  IF sensitive_names = <<>> THEN text
  ELSE anonymize_text(re_sub(Head(sensitive_names), text), Tail(sensitive_names))

(***************************************************************************)
(* Python helpers                                                          *)
(***************************************************************************)
\* {}
EmptyDict == <<>>

\* d.get(key, default)
dict_get(d, key, default) == IF key \in DOMAIN d THEN d[key] ELSE default

RECURSIVE DecStr(_)
\* str(n) for n >= 0
DecStr(n) == IF n < 10 THEN <<DIGITS[n + 1]>>
             ELSE DecStr(n \div 10) \o <<DIGITS[(n % 10) + 1]>>

\* f"{n:03d}": at least three digits, padded with zeros on the left.
Pad3(n) ==
  LET s == DecStr(n) IN
  IF Len(s) >= 3 THEN s ELSE [j \in 1..(3 - Len(s)) |-> "0"] \o s

\* s.replace(old, new) for single characters
str_replace(s, old, new) == [j \in DOMAIN s |-> IF s[j] = old THEN new ELSE s[j]]

\* The last index of character c in s, 0 when there is none.
LastIndex(s, c) ==
  LET at == {j \in DOMAIN s : s[j] = c} IN
  IF at = {} THEN 0 ELSE CHOOSE j \in at : \A m \in at : m <= j

\* os.path.basename(path)
basename(path) == SubSeq(path, LastIndex(path, "/") + 1, Len(path))

\* os.path.splitext(path)[1]: from the last dot of the last component on,
\* unless only dots precede it there.
splitext_ext(path) ==
  LET sep == LastIndex(path, "/")
      dot == LastIndex(path, ".")
  IN  IF dot > sep /\ \E j \in (sep + 1)..(dot - 1) : path[j] # "."
      THEN SubSeq(path, dot, Len(path)) ELSE <<>>

\* os.path.join(a, b) for a relative b
path_join(a, b) == a \o <<"/">> \o b

(***************************************************************************)
(* Literals of the extractors and the writer                               *)
(***************************************************************************)
K_Source    == <<"S","o","u","r","c","e">>
K_Type      == <<"T","y","p","e">>
K_Date      == <<"D","a","t","e">>
K_TitleFR   == <<"T","i","t","l","e"," ","(","F","R",")">>
K_TitleEN   == <<"T","i","t","l","e"," ","(","E","N",")">>
K_Appointee == <<"A","p","p","o","i","n","t","e","e"," ","N","a","m","e">>
K_RowID     == <<"R","o","w","_","I","D">>
K_Title     == <<"T","i","t","l","e">>
V_Decree    == <<"D","e","c","r","e","e">>
V_Order     == <<"O","r","d","e","r">>
V_CsvRow    == <<"C","S","V","_","R","o","w">>
C_Name      == <<"N","a","m","e">>
C_Subject   == <<"S","u","b","j","e","c","t">>
C_Text      == <<"T","e","x","t","_","C","o","n","t","e","n","t">>
C_ID        == <<"I","D">>
L_Chunk     == <<"C","h","u","n","k"," ","[">>
L_ChunkEnd  == <<"]",":">>
L_ContentFR == <<"C","o","n","t","e","n","t"," ","(","F","R",")",":"," ">>
L_ContentEN == <<"C","o","n","t","e","n","t"," ","(","E","N",")",":"," ">>
L_CsvRow    == <<"C","S","V"," ","R","o","w"," ","d","a","t","a",":"," ">>
L_Unit      == <<"_","u","n","i","t","_">>
L_Txt       == <<".","t","x","t">>
EXT_JSON    == <<".","j","s","o","n">>
EXT_CSV     == <<".","c","s","v">>

(***************************************************************************)
(* filter_and_chunk_json_data                                              *)
(***************************************************************************)
\* What one item adds to all_sensitive_names (lines 60-63).
ItemNames(item) ==
  (IF "Appointee" \in DOMAIN item /\ "Name" \in DOMAIN item["Appointee"]
   THEN <<item["Appointee"]["Name"]>> ELSE <<>>)
  \o
  (IF /\ "Replacement" \in DOMAIN dict_get(item, "Appointee", EmptyDict)
      /\ item["Appointee"]["Replacement"] # <<>>
   THEN <<item["Appointee"]["Replacement"]>> ELSE <<>>)

RECURSIVE ListNames(_)
ListNames(items) ==
  IF items = <<>> THEN <<>> ELSE ItemNames(Head(items)) \o ListNames(Tail(items))

\* The pre-pass over 'Decrees' then 'Orders' (lines 56-63).
CollectNames(data) ==
  (IF "Decrees" \in DOMAIN data THEN ListNames(data["Decrees"]) ELSE <<>>)
  \o
  (IF "Orders" \in DOMAIN data THEN ListNames(data["Orders"]) ELSE <<>>)

\* A subscript of an item that would raise KeyError: the guard the code
\* evaluates lets the subscript run although the key is missing.
SubscriptFails(item) ==
  \/ /\ "Appointee" \in DOMAIN item /\ "Name" \in DOMAIN item["Appointee"]
     /\ ~("Appointee" \in DOMAIN item /\ "Name" \in DOMAIN item["Appointee"])
  \/ /\ "Replacement" \in DOMAIN dict_get(item, "Appointee", EmptyDict)
     /\ ~("Appointee" \in DOMAIN item /\ "Replacement" \in DOMAIN item["Appointee"])

\* UnitMetadata with the defaults forgotten: .get(key) gives None, written 'None'.
UnitMetadataNoDefault(item, type, original_file_name) ==
  << <<K_Source, original_file_name>>,
     <<K_Type, type>>,
     <<K_Date, dict_get(item, "Date", <<"N","o","n","e">>)>>,
     <<K_TitleFR, dict_get(item, "Title_FR", <<"N","o","n","e">>)>>,
     <<K_TitleEN, dict_get(item, "Title_EN", <<"N","o","n","e">>)>> >>

\* unit_metadata of one act before 'Appointee Name' is set (lines 68-74).
UnitMetadata(item, type, original_file_name) ==
  << <<K_Source, original_file_name>>,
     <<K_Type, type>>,
     <<K_Date, dict_get(item, "Date", NA)>>,
     <<K_TitleFR, dict_get(item, "Title_FR", NA)>>,
     <<K_TitleEN, dict_get(item, "Title_EN", NA)>> >>

\* ArticleChunk numbering from the index itself: f"{j:03d}".
ArticleChunkFromZero(j, article, names) ==
  [f \in {"Chunk_ID", "Content (FR)", "Content (EN)"} |->
     CASE f = "Chunk_ID"     -> Pad3(j)
       [] f = "Content (FR)" -> anonymize_text(dict_get(article, "Content_FR", <<>>), names)
       [] f = "Content (EN)" -> anonymize_text(dict_get(article, "Content_EN", <<>>), names)]

\* One chunk of an article, j counted from 0 as enumerate does (lines 80-87).
ArticleChunk(j, article, names) ==
  [f \in {"Chunk_ID", "Content (FR)", "Content (EN)"} |->
     CASE f = "Chunk_ID"     -> Pad3(j + 1)
       [] f = "Content (FR)" -> anonymize_text(dict_get(article, "Content_FR", <<>>), names)
       [] f = "Content (EN)" -> anonymize_text(dict_get(article, "Content_EN", <<>>), names)]

\* unit_chunks of one act (lines 76-87).
UnitChunks(item, names) ==
  IF "Articles" \in DOMAIN item
  THEN [j \in 1..Len(item["Articles"]) |-> ArticleChunk(j - 1, item["Articles"][j], names)]
  ELSE <<>>

\* The 'Appointee Name' entry (lines 91-95).
AppointeeEntry(item) ==
  LET processed_appointee_name ==
        dict_get(dict_get(item, "Appointee", EmptyDict), "Name", NA)
  IN  IF processed_appointee_name # NA
      THEN <<K_Appointee, ANONYMIZATION_PLACEHOLDER>>
      ELSE <<K_Appointee, processed_appointee_name>>

\* The unit appended for one act (lines 68-104 and 109-143).
BuildUnit(item, type, original_file_name, names) ==
  [metadata |-> Append(UnitMetadata(item, type, original_file_name), AppointeeEntry(item)),
   chunks   |-> UnitChunks(item, names)]

(***************************************************************************)
(* filter_and_chunk_csv_data                                               *)
(* A row is the ordered dict csv.DictReader yields: <<column, value>>      *)
(* pairs in header order.                                                  *)
(***************************************************************************)
row_has(row, key) == \E j \in DOMAIN row : row[j][1] = key

row_get(row, key) == row[CHOOSE j \in DOMAIN row : row[j][1] = key][2]

row_set(row, key, value) ==
  [j \in DOMAIN row |-> IF row[j][1] = key THEN <<key, value>> ELSE row[j]]

\* json.dumps escaping of a str with ensure_ascii=False (printable input).
RECURSIVE json_escape(_)
json_escape(s) ==
  IF s = <<>> THEN <<>>
  ELSE (IF Head(s) \in {"\"", "\\"} THEN <<"\\", Head(s)>> ELSE <<Head(s)>>)
       \o json_escape(Tail(s))

json_str(s) == <<"\"">> \o json_escape(s) \o <<"\"">>

RECURSIVE json_items(_)
json_items(row) ==
  IF row = <<>> THEN <<>>
  ELSE json_str(row[1][1]) \o <<":", " ">> \o json_str(row[1][2])
       \o (IF Len(row) > 1 THEN <<",", " ">> ELSE <<>>)
       \o json_items(Tail(row))

\* json.dumps(row, ensure_ascii=False) of a dict of str values
json_dumps(row) == <<"{">> \o json_items(row) \o <<"}">>

RECURSIVE CsvNames(_)
\* sensitive_names_csv (lines 165-168)
CsvNames(data) ==
  IF data = <<>> THEN <<>>
  ELSE (IF row_has(Head(data), C_Name) /\ row_get(Head(data), C_Name) # <<>>
        THEN <<row_get(Head(data), C_Name)>> ELSE <<>>)
       \o CsvNames(Tail(data))

\* unit_metadata of row i, counted from 0 (lines 172-184).
CsvMetadata(i, row, original_file_name) ==
  << <<K_Source, original_file_name>>,
     <<K_Type, V_CsvRow>>,
     <<K_RowID, DecStr(i + 1)>> >>
  \o (IF row_has(row, K_Date) THEN << <<K_Date, row_get(row, K_Date)>> >> ELSE <<>>)
  \o (IF row_has(row, C_Subject) THEN << <<K_Title, row_get(row, C_Subject)>> >> ELSE <<>>)

\* processed_row_content (lines 187-193).
ProcessedRow(row, names) ==
  LET masked == IF row_has(row, C_Name)
                THEN row_set(row, C_Name, ANONYMIZATION_PLACEHOLDER) ELSE row
  IN  IF row_has(masked, C_Text)
      THEN row_set(masked, C_Text, anonymize_text(row_get(masked, C_Text), names))
      ELSE masked

\* unit_chunks of a row (lines 196-208).
CsvChunks(row, names) ==
  LET processed_row_content == ProcessedRow(row, names) IN
  << [f \in {"Chunk_ID", "Content (EN)"} |->
        CASE f = "Chunk_ID" -> <<"0", "0", "1">>
          [] f = "Content (EN)" ->
               IF row_has(processed_row_content, C_Text)
               THEN row_get(processed_row_content, C_Text)
               ELSE L_CsvRow \o json_dumps(processed_row_content)] >>

\* filter_and_chunk_csv_data(data, original_file_name) (lines 157-214)
filter_and_chunk_csv_data(data, original_file_name) ==
  LET sensitive_names_csv == CsvNames(data) IN
  [i \in 1..Len(data) |->
     [metadata |-> CsvMetadata(i - 1, data[i], original_file_name),
      chunks   |-> CsvChunks(data[i], sensitive_names_csv)]]

(***************************************************************************)
(* write_chunks_to_files                                                   *)
(* A file is the sequence of its lines; every f.write call of the writer   *)
(* ends its text with a newline, so each call adds one line.               *)
(***************************************************************************)
RECURSIVE MetadataLines(_)
\* lines 234-236: one "key: value" line per entry, then an empty line
MetadataLines(metadata) ==
  IF metadata = <<>> THEN << <<>> >>
  ELSE << metadata[1][1] \o <<":", " ">> \o metadata[1][2] >>
       \o MetadataLines(Tail(metadata))

\* ChunkLines testing only that the key is there: an empty content gets a line.
ChunkLinesEvenIfEmpty(chunk) ==
  << L_Chunk \o chunk["Chunk_ID"] \o L_ChunkEnd >>
  \o (IF "Content (FR)" \in DOMAIN chunk
      THEN << L_ContentFR \o chunk["Content (FR)"] >> ELSE <<>>)
  \o (IF "Content (EN)" \in DOMAIN chunk
      THEN << L_ContentEN \o chunk["Content (EN)"] >> ELSE <<>>)
  \o << <<>> >>

\* lines 240-245: the block of one chunk
ChunkLines(chunk) ==
  << L_Chunk \o chunk["Chunk_ID"] \o L_ChunkEnd >>
  \o (IF "Content (FR)" \in DOMAIN chunk /\ chunk["Content (FR)"] # <<>>
      THEN << L_ContentFR \o chunk["Content (FR)"] >> ELSE <<>>)
  \o (IF "Content (EN)" \in DOMAIN chunk /\ chunk["Content (EN)"] # <<>>
      THEN << L_ContentEN \o chunk["Content (EN)"] >> ELSE <<>>)
  \o << <<>> >>

RECURSIVE ChunksLines(_)
ChunksLines(chunks) ==
  IF chunks = <<>> THEN <<>>
  ELSE ChunkLines(Head(chunks)) \o ChunksLines(Tail(chunks))

\* Everything the writer writes into the file of one unit (lines 232-245).
UnitLines(unit) == MetadataLines(unit.metadata) \o ChunksLines(unit.chunks)

\* full_output_path (line 225)
OutputPath(output_sub_dir) == path_join(OUTPUT_DIR, output_sub_dir)

\* output_filename of the unit at index i, counted from 0 (line 230)
OutputFilename(output_sub_dir, i) ==
  path_join(OutputPath(output_sub_dir), output_sub_dir \o L_Unit \o Pad3(i + 1) \o L_Txt)

(***************************************************************************)
(* algorithm_main: the exception classes it can meet                       *)
(***************************************************************************)
\* The direct base class of each built-in exception class the model raises.
ExceptionBase ==
  [FileNotFoundError |-> "OSError", PermissionError |-> "OSError",
   OSError |-> "Exception", JSONDecodeError |-> "ValueError",
   UnicodeDecodeError |-> "ValueError", ValueError |-> "Exception",
   TypeError |-> "Exception", KeyError |-> "LookupError",
   LookupError |-> "Exception", Exception |-> "BaseException"]

RECURSIVE IsSubclass(_, _)
IsSubclass(cls, of) ==
  \/ cls = of
  \/ cls \in DOMAIN ExceptionBase /\ IsSubclass(ExceptionBase[cls], of)

\* HandlerCatches of 'except OSError as e'.
HandlerCatchesOSError(cls) == IsSubclass(cls, "OSError")

\* 'except Exception as e' (line 287) catches the exception in flight.
HandlerCatches(cls) == IsSubclass(cls, "Exception")

(***************************************************************************)
(* State                                                                   *)
(***************************************************************************)
VARIABLES
  inputs,                \* the input files still to be handed to algorithm_main
  fs,                    \* the output tree: [dirs: set of paths, files: path -> lines]
  fs_at_call,            \* history: fs when the running call began
  log,                   \* the outcome each finished call printed
  propagated,            \* an exception left algorithm_main
  pc,                    \* where the running call is
  doc,                   \* the input file of the running call
  raw_data,              \* algorithm_main / the extractor's data
  all_sensitive_names,   \* filter_and_chunk_json_data
  filtered_output_units, \* filter_and_chunk_json_data
  e_i,                     \* i of the extractor's loops
  processed_units,       \* algorithm_main
  w_i,                     \* i of write_chunks_to_files' loop
  exc,                   \* the exception in flight
  a_text, a_names, a_out \* anonymize_text called on its own

vars == <<inputs, fs, fs_at_call, log, propagated, pc, doc, raw_data,
          all_sensitive_names, filtered_output_units, e_i, processed_units, w_i, exc,
          a_text, a_names, a_out>>

avars == <<a_text, a_names, a_out>>

mainvars == <<inputs, fs, fs_at_call, log, propagated, pc, doc, raw_data,
              all_sensitive_names, filtered_output_units, e_i, processed_units, w_i, exc>>

(***************************************************************************)
(* Inputs. The bounds of the model:                                        *)
(***************************************************************************)
MaxActs     == 2   \* acts in the 'Decrees' list of a shape document
MaxArticles == 2   \* articles of an act of a shape document
MaxRows     == 2   \* rows of a CSV input
MaxBatch    == 2   \* input files handed to algorithm_main one after another
MaxTextLen  == 3   \* length of the text anonymize_text is called on by itself
MaxNameLen  == 2   \* length of a name anonymize_text is called on by itself
MaxNames    == 2   \* names in the list anonymize_text is called on by itself

SeqsUpTo(S, n) == UNION {[1..m -> S] : m \in 0..n}

\* A key that is absent, or present with one of the values.
Opt(key, values) == {EmptyDict} \cup {key :> v : v \in values}

\* Input file names.
P_Json   == <<"f",".","j","s","o","n">>
P_JsonUp == <<"d","/","g",".","J","S","O","N">>
P_Csv    == <<"f",".","c","s","v">>
P_Other  == <<"f",".","t","x","t">>
P_Hidden == <<".","j","s","o","n">>

JsonDoc(path, data) ==
  [path |-> path, fault |-> "none", json |-> "object", data |-> data]

\* Shape documents: how many acts and articles there are, and which
\* collections exist.
ShapeArticle(j) ==
  IF j % 2 = 1 THEN [Content_FR |-> <<"x", " ", "q">>]
  ELSE [Content_FR |-> <<"q">>, Content_EN |-> <<"X", ".">>]

ShapeActs ==
  {EmptyDict} \cup
  {[Date |-> DecStr(n), Appointee |-> [Name |-> <<"x">>],
    Articles |-> [j \in 1..n |-> ShapeArticle(j)]] : n \in 0..MaxArticles}

ShapeDocs ==
  {JsonDoc(P_Json, d @@ o) :
     d \in Opt("Decrees", SeqsUpTo(ShapeActs, MaxActs)),
     o \in Opt("Orders", SeqsUpTo(ShapeActs, 1))}

\* Field documents: one act, each of its fields absent or present.
AppointeeValues ==
  {EmptyDict, [Name |-> <<"x">>], [Name |-> <<"q", ".">>], [Name |-> <<>>],
   [Name |-> NA], [Name |-> <<"x">>, Replacement |-> <<"q">>],
   [Name |-> <<"x">>, Replacement |-> <<>>], [Replacement |-> <<"q">>]}

FieldArticles ==
  {fr @@ en : fr \in Opt("Content_FR", {<<>>, <<"X", " ", "q", ".">>}),
              en \in Opt("Content_EN", {<<"x", ".", "q">>})}

FieldActs ==
  {d @@ tf @@ te @@ ap @@ ar :
     d  \in Opt("Date", {<<"1">>}),
     tf \in Opt("Title_FR", {<<"q">>}),
     te \in Opt("Title_EN", {<<"x", " ", "q">>}),
     ap \in Opt("Appointee", AppointeeValues),
     ar \in Opt("Articles", {<<>>} \cup {<<a>> : a \in FieldArticles})}

FieldDocs ==
  {JsonDoc(P_JsonUp, c :> <<a>>) : c \in {"Decrees", "Orders"}, a \in FieldActs}

\* Cross documents: a decree whose article mentions names, and an order
\* that appoints somebody.
CrossTexts ==
  {<<"x">>, <<"X", ".">>, <<"x", "q">>, <<"q", ".", " ", "x">>, <<"q", ".", "x">>}

CrossDocs ==
  {JsonDoc(P_Json,
           [Decrees |-> << dn @@ [Articles |-> << [Content_EN |-> t] >>] >>,
            Orders  |-> << [Appointee |-> [Name |-> n] @@ r] >>]) :
     t  \in CrossTexts,
     dn \in Opt("Appointee", {[Name |-> <<"q">>]}),
     n  \in {<<"x">>, <<"q", ".">>, <<>>, <<"x", "q">>},
     r  \in Opt("Replacement", {<<"q">>})}

\* CSV inputs: the header decides which keys every row has.
CsvCells(column) ==
  CASE column = C_Name    -> {<<"x">>, <<"q", ".">>}
    [] column = C_Subject -> {<<"q">>, <<"x", " ", "q">>}
    [] column = C_Text    -> {<<>>, <<"X", " ", "q", ".">>}
    [] OTHER              -> {<<"1">>}

CsvHeaders ==
  {<<C_ID, C_Name, K_Date, C_Subject, C_Text>>, <<C_Name, C_Subject>>, <<C_ID>>}

CsvRows(header) ==
  {[j \in DOMAIN header |-> <<header[j], cells[j]>>] :
     cells \in {c \in [DOMAIN header -> UNION {CsvCells(header[j]) : j \in DOMAIN header}] :
                  \A j \in DOMAIN header : c[j] \in CsvCells(header[j])}}

CsvDocs ==
  UNION {{[path |-> P_Csv, fault |-> "none", json |-> "object", data |-> rows] :
            rows \in SeqsUpTo(CsvRows(h), MaxRows)} : h \in CsvHeaders}

\* Batch documents: a few inputs, some of which fail, handed over in a row.
BatchDocs ==
  {JsonDoc(P_Json, [Decrees |-> <<[Articles |-> <<ShapeArticle(1)>>], EmptyDict>>]),
   JsonDoc(P_Json, [Orders |-> <<[Date |-> <<"1">>]>>]),
   [path |-> P_Json, fault |-> "JSONDecodeError", json |-> "object", data |-> EmptyDict],
   [path |-> P_Json, fault |-> "none", json |-> "number", data |-> EmptyDict],
   [path |-> P_Csv, fault |-> "FileNotFoundError", json |-> "object", data |-> <<>>],
   [path |-> P_Csv, fault |-> "none", json |-> "object",
    data |-> << <<<<C_Name, <<"x">>>>, <<C_Text, <<"x">>>>>> >>],
   JsonDoc(P_Other, EmptyDict),
   JsonDoc(P_Hidden, EmptyDict)}

Batches ==
  {<<d>> : d \in ShapeDocs \cup FieldDocs \cup CrossDocs \cup CsvDocs}
  \cup (SeqsUpTo(BatchDocs, MaxBatch) \ {<<>>})

(***************************************************************************)
(* algorithm_main, one input file per call                                 *)
(***************************************************************************)
\* lines 262, 263, 265
file_extension == LowerStr(splitext_ext(doc.path))

original_file_name == basename(doc.path)

input_data_identifier == str_replace(original_file_name, ".", "_")

NoDoc == JsonDoc(<<>>, EmptyDict)

EmptyFs == [dirs |-> {}, files |-> EmptyDict]

Init ==
  /\ inputs \in Batches
  /\ fs = EmptyFs
  /\ fs_at_call = EmptyFs
  /\ log = <<>>
  /\ propagated = FALSE
  /\ pc = "idle"
  /\ doc = NoDoc
  /\ raw_data = EmptyDict
  /\ all_sensitive_names = <<>>
  /\ filtered_output_units = <<>>
  /\ e_i = 0
  /\ processed_units = <<>>
  /\ w_i = 0
  /\ exc = "none"
  /\ a_text = <<>> /\ a_names = <<>> /\ a_out = <<>>

\* raise cls: control goes to the except clause of algorithm_main.
Raise(cls) == exc' = cls /\ pc' = "except"

\* return from algorithm_main: its locals are gone.
Return(message) ==
  /\ log' = Append(log, message)
  /\ pc' = "idle"
  /\ doc' = NoDoc
  /\ raw_data' = EmptyDict
  /\ all_sensitive_names' = <<>>
  /\ filtered_output_units' = <<>>
  /\ e_i' = 0
  /\ processed_units' = <<>>
  /\ w_i' = 0
  /\ exc' = "none"

\* algorithm_main(input_file_path) is called (lines 260-265).
Call ==
  /\ pc = "idle" /\ ~propagated /\ inputs # <<>>
  /\ doc' = Head(inputs)
  /\ inputs' = Tail(inputs)
  /\ processed_units' = <<>>
  /\ fs_at_call' = fs
  /\ pc' = "try"
  /\ UNCHANGED <<fs, log, propagated, raw_data, all_sensitive_names,
                 filtered_output_units, e_i, w_i, exc, avars>>

\* The '.json' branch reads the file (lines 268-270).
ReadJson ==
  /\ pc = "try" /\ file_extension = EXT_JSON
  /\ IF doc.fault # "none"
     THEN Raise(doc.fault) /\ UNCHANGED raw_data
     ELSE raw_data' = doc.data /\ pc' = "collect" /\ UNCHANGED exc
  /\ UNCHANGED <<inputs, fs, fs_at_call, log, propagated, doc, all_sensitive_names,
                 filtered_output_units, e_i, processed_units, w_i, avars>>

JsonItems(data) ==
  (IF "Decrees" \in DOMAIN data THEN Range(data["Decrees"]) ELSE {})
  \cup (IF "Orders" \in DOMAIN data THEN Range(data["Orders"]) ELSE {})

\* filter_and_chunk_json_data begins: the pre-pass (lines 53-63). A JSON
\* number has no 'in'; a subscript of a missing key raises KeyError.
CollectSensitiveNames ==
  /\ pc = "collect"
  /\ IF doc.json = "number"
     THEN Raise("TypeError") /\ UNCHANGED <<all_sensitive_names, filtered_output_units, e_i>>
     ELSE IF \E item \in JsonItems(raw_data) : SubscriptFails(item)
     THEN Raise("KeyError") /\ UNCHANGED <<all_sensitive_names, filtered_output_units, e_i>>
     ELSE /\ all_sensitive_names' = CollectNames(raw_data)
          /\ filtered_output_units' = <<>>
          /\ e_i' = 0
          /\ pc' = "decrees"
          /\ UNCHANGED exc
  /\ UNCHANGED <<inputs, fs, fs_at_call, log, propagated, doc, raw_data,
                 processed_units, w_i, avars>>

\* One pass of the loop over data['Decrees'] (lines 67-104).
BuildDecree ==
  /\ pc = "decrees" /\ "Decrees" \in DOMAIN raw_data /\ e_i < Len(raw_data["Decrees"])
  /\ filtered_output_units' =
       Append(filtered_output_units,
              BuildUnit(raw_data["Decrees"][e_i + 1], V_Decree, original_file_name,
                        all_sensitive_names))
  /\ e_i' = e_i + 1
  /\ UNCHANGED <<inputs, fs, fs_at_call, log, propagated, pc, doc, raw_data,
                 all_sensitive_names, processed_units, w_i, exc, avars>>

\* The loop over the decrees is over, or there is no 'Decrees' (line 66).
DecreesDone ==
  /\ pc = "decrees"
  /\ "Decrees" \in DOMAIN raw_data => e_i = Len(raw_data["Decrees"])
  /\ pc' = "orders"
  /\ e_i' = 0
  /\ UNCHANGED <<inputs, fs, fs_at_call, log, propagated, doc, raw_data,
                 all_sensitive_names, filtered_output_units, processed_units, w_i, exc,
                 avars>>

\* One pass of the loop over data['Orders'] (lines 108-143).
BuildOrder ==
  /\ pc = "orders" /\ "Orders" \in DOMAIN raw_data /\ e_i < Len(raw_data["Orders"])
  /\ filtered_output_units' =
       Append(filtered_output_units,
              BuildUnit(raw_data["Orders"][e_i + 1], V_Order, original_file_name,
                        all_sensitive_names))
  /\ e_i' = e_i + 1
  /\ UNCHANGED <<inputs, fs, fs_at_call, log, propagated, pc, doc, raw_data,
                 all_sensitive_names, processed_units, w_i, exc, avars>>

\* return filtered_output_units (line 145), assigned in line 271.
OrdersDone ==
  /\ pc = "orders"
  /\ "Orders" \in DOMAIN raw_data => e_i = Len(raw_data["Orders"])
  /\ processed_units' = filtered_output_units
  /\ pc' = "extracted"
  /\ UNCHANGED <<inputs, fs, fs_at_call, log, propagated, doc, raw_data,
                 all_sensitive_names, filtered_output_units, e_i, w_i, exc, avars>>

\* The '.csv' branch: read the rows and extract (lines 272-276).
ReadCsv ==
  /\ pc = "try" /\ file_extension = EXT_CSV
  /\ IF doc.fault # "none"
     THEN Raise(doc.fault) /\ UNCHANGED <<raw_data, processed_units>>
     ELSE /\ raw_data' = doc.data
          /\ processed_units' = filter_and_chunk_csv_data(doc.data, original_file_name)
          /\ pc' = "extracted"
          /\ UNCHANGED exc
  /\ UNCHANGED <<inputs, fs, fs_at_call, log, propagated, doc, all_sensitive_names,
                 filtered_output_units, e_i, w_i, avars>>

\* Any other extension: a message and return (lines 277-279).
Unsupported ==
  /\ pc = "try" /\ file_extension \notin {EXT_JSON, EXT_CSV}
  /\ Return("unsupported")
  /\ UNCHANGED <<inputs, fs, fs_at_call, propagated, avars>>

\* No unit: a message and return (lines 284-285).
NoUnits ==
  /\ pc = "extracted" /\ processed_units = <<>>
  /\ Return("no_units")
  /\ UNCHANGED <<inputs, fs, fs_at_call, propagated, avars>>

\* write_chunks_to_files begins: os.makedirs(..., exist_ok=True) (lines 225-226).
MakeDirs ==
  /\ pc = "extracted" /\ processed_units # <<>>
  /\ fs' = [fs EXCEPT !.dirs = @ \cup {OUTPUT_DIR, OutputPath(input_data_identifier)}]
  /\ w_i' = 0
  /\ pc' = "write"
  /\ UNCHANGED <<inputs, fs_at_call, log, propagated, doc, raw_data,
                 all_sensitive_names, filtered_output_units, e_i, processed_units, exc,
                 avars>>

\* os.makedirs fails.
MakeDirsFails ==
  /\ pc = "extracted" /\ processed_units # <<>>
  /\ Raise("PermissionError")
  /\ UNCHANGED <<inputs, fs, fs_at_call, log, propagated, doc, raw_data,
                 all_sensitive_names, filtered_output_units, e_i, processed_units, w_i,
                 avars>>

\* fs with the file at path holding lines.
WithFile(disk, path, lines) == [disk EXCEPT !.files = (path :> lines) @@ @]

\* One pass of the writer's loop: the file of unit w_i is written (lines 228-247).
WriteUnit ==
  /\ pc = "write" /\ w_i < Len(processed_units)
  /\ fs' = WithFile(fs, OutputFilename(input_data_identifier, w_i),
                    UnitLines(processed_units[w_i + 1]))
  /\ w_i' = w_i + 1
  /\ UNCHANGED <<inputs, fs_at_call, log, propagated, pc, doc, raw_data,
                 all_sensitive_names, filtered_output_units, e_i, processed_units, exc,
                 avars>>

\* Writing the file of unit w_i fails: in open, which leaves the tree as it
\* is, or in a later call, which leaves the lines written so far.
WriteUnitFails ==
  /\ pc = "write" /\ w_i < Len(processed_units)
  /\ \/ UNCHANGED fs
     \/ \E n \in 0..Len(UnitLines(processed_units[w_i + 1])) :
          fs' = WithFile(fs, OutputFilename(input_data_identifier, w_i),
                         SubSeq(UnitLines(processed_units[w_i + 1]), 1, n))
  /\ Raise("OSError")
  /\ UNCHANGED <<inputs, fs_at_call, log, propagated, doc, raw_data,
                 all_sensitive_names, filtered_output_units, e_i, processed_units, w_i,
                 avars>>

\* The writer returns; the success message and return (line 283).
Finish ==
  /\ pc = "write" /\ w_i = Len(processed_units)
  /\ Return("success")
  /\ UNCHANGED <<inputs, fs, fs_at_call, propagated, avars>>

\* The except clause (lines 287-290): the exception is reported and the
\* call returns; an exception the clause does not catch leaves the call.
Handle ==
  /\ pc = "except"
  /\ IF HandlerCatches(exc)
     THEN Return("error") /\ UNCHANGED propagated
     ELSE /\ propagated' = TRUE
          /\ pc' = "idle"
          /\ UNCHANGED <<log, doc, raw_data, all_sensitive_names, filtered_output_units,
                         e_i, processed_units, w_i, exc>>
  /\ UNCHANGED <<inputs, fs, fs_at_call, avars>>

Next ==
  \/ Call \/ ReadJson \/ CollectSensitiveNames \/ BuildDecree \/ DecreesDone
  \/ BuildOrder \/ OrdersDone \/ ReadCsv \/ Unsupported \/ NoUnits \/ MakeDirs
  \/ MakeDirsFails \/ WriteUnit \/ WriteUnitFails \/ Finish \/ Handle

Spec == Init /\ [][Next]_vars

(***************************************************************************)
(* anonymize_text called on its own: once, and again on its own result     *)
(***************************************************************************)
AnonTexts == SeqsUpTo({"x", "X", "q", "."}, MaxTextLen)

\* The empty name, names of letters and dots with a letter in them, and the
\* word inside the placeholder.
AnonNames ==
  {name \in SeqsUpTo({"x", "."}, MaxNameLen) : name = <<>> \/ "x" \in Range(name)}
  \cup {LowerStr(SubSeq(ANONYMIZATION_PLACEHOLDER, 2, Len(ANONYMIZATION_PLACEHOLDER) - 1))}

AnonInit ==
  /\ a_text \in AnonTexts
  /\ a_names \in SeqsUpTo(AnonNames, MaxNames)
  /\ a_out = <<>>
  /\ inputs = <<>>
  /\ fs = EmptyFs
  /\ fs_at_call = EmptyFs
  /\ log = <<>>
  /\ propagated = FALSE
  /\ pc = "idle"
  /\ doc = NoDoc
  /\ raw_data = EmptyDict
  /\ all_sensitive_names = <<>>
  /\ filtered_output_units = <<>>
  /\ e_i = 0
  /\ processed_units = <<>>
  /\ w_i = 0
  /\ exc = "none"

\* anonymize_text(text, names)
Anonymize ==
  /\ a_out = <<>>
  /\ a_out' = <<anonymize_text(a_text, a_names)>>
  /\ UNCHANGED <<a_text, a_names, mainvars>>

\* anonymize_text(anonymize_text(text, names), names)
AnonymizeAgain ==
  /\ Len(a_out) = 1
  /\ a_out' = Append(a_out, anonymize_text(a_out[1], a_names))
  /\ UNCHANGED <<a_text, a_names, mainvars>>

AnonNext == Anonymize \/ AnonymizeAgain

SpecAnon == AnonInit /\ [][AnonNext]_vars

(***************************************************************************)
(* Properties                                                              *)
(***************************************************************************)
\* s occurs in t at offset p, compared after case folding.
OccursAt(t, p, s) ==
  /\ p + Len(s) <= Len(t)
  /\ \A j \in 1..Len(s) : Lower(t[p + j]) = Lower(s[j])

\* A case-insensitive whole-word occurrence of name in t: an occurrence with
\* no letter, digit or underscore next to it on either side.
WholeWordOccurrence(t, name) ==
  \E p \in 0..Len(t) :
    /\ OccursAt(t, p, name)
    /\ p = 0 \/ ~IsWordChar(t[p])
    /\ p + Len(name) = Len(t) \/ ~IsWordChar(t[p + Len(name) + 1])

\* s occurs verbatim somewhere in t.
Contains(t, s) ==
  \E p \in 0..(Len(t) - Len(s)) : SubSeq(t, p + 1, p + Len(s)) = s

StartsWith(t, s) == Len(s) <= Len(t) /\ SubSeq(t, 1, Len(s)) = s

RECURSIVE OnlyNamesReplaced(_, _, _)
\* r is t with some regions, each one a name of names up to case, replaced by
\* the placeholder, everything else being the same character for character.
OnlyNamesReplaced(t, r, names) ==
  \/ t = <<>> /\ r = <<>>
  \/ /\ t # <<>> /\ r # <<>> /\ Head(t) = Head(r)
     /\ OnlyNamesReplaced(Tail(t), Tail(r), names)
  \/ /\ StartsWith(r, ANONYMIZATION_PLACEHOLDER)
     /\ \E name \in names :
          /\ OccursAt(t, 0, name)
          /\ OnlyNamesReplaced(SubSeq(t, Len(name) + 1, Len(t)),
                               SubSeq(r, Len(ANONYMIZATION_PLACEHOLDER) + 1, Len(r)),
                               names)

NonEmptyName(name) == name # <<>>

\* C1: the result of anonymize_text(text, names) holds no case-insensitive
\* whole-word occurrence of any name of names, and whatever was not matched
\* by a name is the same as in text. (Stated for lists of non-empty names;
\* C4 is about the empty name.)
C1_NoNameLeft ==
  (Len(a_out) >= 1 /\ \A name \in Range(a_names) : NonEmptyName(name)) =>
    /\ \A name \in Range(a_names) : ~WholeWordOccurrence(a_out[1], name)
    /\ OnlyNamesReplaced(a_text, a_out[1], Range(a_names))

\* C4: an empty string among the names matches nothing: the result is the
\* result for the names without the empty strings.
C4_EmptyNameMatchesNothing ==
  Len(a_out) >= 1 => a_out[1] = anonymize_text(a_text, SelectSeq(a_names, NonEmptyName))

\* C5: anonymizing the result again with the same names changes nothing.
C5_Idempotent ==
  Len(a_out) = 2 => a_out[2] = a_out[1]

(***************************************************************************)
(* Properties of a call of algorithm_main                                  *)
(***************************************************************************)
\* The running call is on a JSON file that was read as an object.
JsonCall ==
  /\ pc \in {"collect", "decrees", "orders", "extracted", "write", "except"}
  /\ file_extension = EXT_JSON /\ doc.fault = "none" /\ doc.json = "object"

\* The running call is on a CSV file that was read.
CsvCall ==
  /\ pc \in {"extracted", "write", "except"}
  /\ file_extension = EXT_CSV /\ doc.fault = "none"

ListOf(data, key) == IF key \in DOMAIN data THEN data[key] ELSE <<>>

\* The acts of a document: the decrees, then the orders.
Acts(data) == ListOf(data, "Decrees") \o ListOf(data, "Orders")

HasAppointeeName(act) ==
  "Appointee" \in DOMAIN act /\ "Name" \in DOMAIN act["Appointee"]

HasReplacement(act) ==
  /\ "Appointee" \in DOMAIN act /\ "Replacement" \in DOMAIN act["Appointee"]
  /\ act["Appointee"]["Replacement"] # <<>>

\* The value of key in an ordered mapping.
ValueOf(mapping, key) == mapping[CHOOSE j \in DOMAIN mapping : mapping[j][1] = key][2]

\* n < 1000 as three digits.
ThreeDigits(n) ==
  <<DIGITS[((n \div 100) % 10) + 1], DIGITS[((n \div 10) % 10) + 1], DIGITS[(n % 10) + 1]>>

\* The file of the j-th unit (from 1) of the running call:
\* <OUTPUT_DIR>/<key>/<key>_unit_<NNN>.txt
FileOf(j) ==
  OUTPUT_DIR \o <<"/">> \o input_data_identifier \o <<"/">> \o input_data_identifier
  \o <<"_", "u", "n", "i", "t", "_">> \o ThreeDigits(j) \o <<".", "t", "x", "t">>

Written(j) == FileOf(j) \in DOMAIN fs.files

\* C2: for an act whose appointee name is present and not 'N/A', the unit's
\* 'Appointee Name' is the placeholder and the name occurs nowhere in the
\* unit's file (the empty name, which occurs everywhere, left aside).
C2_NameNeverEmitted ==
  (JsonCall /\ pc = "write") =>
    \A j \in 1..w_i :
      LET act == Acts(raw_data)[j] IN
      (HasAppointeeName(act) /\ act["Appointee"]["Name"] # NA) =>
        /\ ValueOf(processed_units[j].metadata, K_Appointee) = ANONYMIZATION_PLACEHOLDER
        /\ act["Appointee"]["Name"] # <<>> =>
             \A line \in Range(fs.files[FileOf(j)]) :
               ~Contains(line, act["Appointee"]["Name"])

\* C3: every row gives one unit with the single chunk '001', and the row's
\* (non-empty) Name occurs nowhere in the row's file.
C3_RowNameNeverWritten ==
  CsvCall =>
    /\ Len(processed_units) = Len(raw_data)
    /\ \A j \in DOMAIN processed_units :
         /\ Len(processed_units[j].chunks) = 1
         /\ processed_units[j].chunks[1]["Chunk_ID"] = <<"0", "0", "1">>
    /\ pc = "write" =>
         \A j \in 1..w_i :
           (row_has(raw_data[j], C_Name) /\ row_get(raw_data[j], C_Name) # <<>>) =>
             \A line \in Range(fs.files[FileOf(j)]) :
               ~Contains(line, row_get(raw_data[j], C_Name))

\* The appointee names and the non-empty replacement names of all acts.
DocumentNames(data) ==
  {act["Appointee"]["Name"] : act \in {a \in Range(Acts(data)) : HasAppointeeName(a)}}
  \cup {act["Appointee"]["Replacement"] : act \in {a \in Range(Acts(data)) : HasReplacement(a)}}

\* C6: the names of both collections are collected before any unit is
\* built, so no chunk of any unit holds a whole-word occurrence of a
\* (non-empty) name of any act of the document.
C6_NamesOfAllActsReplaced ==
  (JsonCall /\ pc \in {"decrees", "orders", "extracted", "write"}) =>
    /\ Range(all_sensitive_names) = DocumentNames(raw_data)
    /\ \A unit \in Range(filtered_output_units) :
         \A chunk \in Range(unit.chunks) :
           \A name \in DocumentNames(raw_data) \ {<<>>} :
             /\ ~WholeWordOccurrence(chunk["Content (FR)"], name)
             /\ ~WholeWordOccurrence(chunk["Content (EN)"], name)

ArticleCount(act) == IF "Articles" \in DOMAIN act THEN Len(act["Articles"]) ELSE 0

\* C7: one unit per act, the decrees' units before the orders' units and in
\* source order; a unit has one chunk per article of its act, numbered
\* "001", "002", ... in article order.
C7_OneUnitPerAct ==
  (JsonCall /\ pc \in {"extracted", "write"}) =>
    LET acts == Acts(raw_data)
        decrees == Len(ListOf(raw_data, "Decrees"))
    IN  /\ Len(processed_units) = Len(acts)
        /\ \A j \in DOMAIN processed_units :
             LET unit == processed_units[j] IN
             /\ ValueOf(unit.metadata, K_Type) =
                  (IF j <= decrees THEN V_Decree ELSE V_Order)
             /\ "Date" \in DOMAIN acts[j] =>
                  ValueOf(unit.metadata, K_Date) = acts[j]["Date"]
             /\ Len(unit.chunks) = ArticleCount(acts[j])
             /\ \A c \in DOMAIN unit.chunks :
                  unit.chunks[c]["Chunk_ID"] = ThreeDigits(c)

C7_Witness ==
  /\ JsonCall /\ pc = "extracted"
  /\ Len(ListOf(raw_data, "Decrees")) = 2 /\ Len(ListOf(raw_data, "Orders")) = 1
  /\ Len(processed_units[1].chunks) = 2 /\ Len(processed_units[2].chunks) = 0
  /\ Len(processed_units[3].chunks) = 1

\* The lines of a file that begin with a label.
LinesWith(lines, label) == {j \in DOMAIN lines : StartsWith(lines[j], label)}

\* C8: a missing field never makes the call fail: a missing Date or title
\* gives 'N/A', a missing Appointee or appointee Name gives 'Appointee Name'
\* 'N/A', a missing collection gives no unit, an act without Articles gives
\* no chunk, a missing content field gives no content line; a unit is built
\* for every act and a file is written for every unit.
C8_MissingFieldNeverFails ==
  JsonCall =>
    LET acts == Acts(raw_data) IN
    /\ pc = "except" => exc \in {"PermissionError", "OSError"}
    /\ pc \in {"extracted", "write"} =>
         /\ Len(processed_units) = Len(acts)
         /\ \A j \in DOMAIN processed_units :
              LET meta == processed_units[j].metadata IN
              /\ "Date" \notin DOMAIN acts[j] => ValueOf(meta, K_Date) = NA
              /\ "Title_FR" \notin DOMAIN acts[j] => ValueOf(meta, K_TitleFR) = NA
              /\ "Title_EN" \notin DOMAIN acts[j] => ValueOf(meta, K_TitleEN) = NA
              /\ ~HasAppointeeName(acts[j]) => ValueOf(meta, K_Appointee) = NA
              /\ "Articles" \notin DOMAIN acts[j] => processed_units[j].chunks = <<>>
    /\ pc = "write" =>
         \A j \in 1..w_i :
           /\ Written(j)
           /\ Cardinality(LinesWith(fs.files[FileOf(j)], L_ContentFR))
                <= Cardinality({c \in 1..ArticleCount(acts[j]) :
                                  "Content_FR" \in DOMAIN acts[j]["Articles"][c]})
           /\ Cardinality(LinesWith(fs.files[FileOf(j)], L_ContentEN))
                <= Cardinality({c \in 1..ArticleCount(acts[j]) :
                                  "Content_EN" \in DOMAIN acts[j]["Articles"][c]})

\* An act with nothing in it and a sibling with an article that has no
\* content, both written.
C8_Witness ==
  /\ JsonCall /\ pc = "write" /\ w_i = Len(processed_units)
  /\ "Orders" \notin DOMAIN raw_data
  /\ \E j \in 1..w_i : Acts(raw_data)[j] = EmptyDict
  /\ \E j \in 1..w_i : ArticleCount(Acts(raw_data)[j]) = 2

\* A content of a chunk is written: it is there and not empty.
Shown(chunk, field) == field \in DOMAIN chunk /\ chunk[field] # <<>>

\* The number of lines of the block of a chunk: its header, its content
\* lines and the empty line.
BlockSize(chunk) ==
  2 + (IF Shown(chunk, "Content (FR)") THEN 1 ELSE 0)
    + (IF Shown(chunk, "Content (EN)") THEN 1 ELSE 0)

RECURSIVE BlocksSize(_, _)
\* The number of lines of the blocks of the first n chunks.
BlocksSize(chunks, n) ==
  IF n = 0 THEN 0 ELSE BlocksSize(chunks, n - 1) + BlockSize(chunks[n])

\* lines is the layout of unit: the metadata entries as "key: value" in
\* order, an empty line, then per chunk a header with its id, a
\* 'Content (FR)' line iff that content is there and not empty, a
\* 'Content (EN)' line likewise, and an empty line.
HasLayout(lines, unit) ==
  LET m == Len(unit.metadata) IN
  /\ Len(lines) = m + 1 + BlocksSize(unit.chunks, Len(unit.chunks))
  /\ \A r \in 1..m :
       lines[r] = unit.metadata[r][1] \o <<":", " ">> \o unit.metadata[r][2]
  /\ lines[m + 1] = <<>>
  /\ \A c \in DOMAIN unit.chunks :
       LET chunk == unit.chunks[c]
           at    == m + 1 + BlocksSize(unit.chunks, c - 1)
           fr    == Shown(chunk, "Content (FR)")
           en    == Shown(chunk, "Content (EN)")
       IN  /\ lines[at + 1] = <<"C","h","u","n","k"," ","[">> \o chunk["Chunk_ID"] \o <<"]",":">>
           /\ fr => lines[at + 2] = L_ContentFR \o chunk["Content (FR)"]
           /\ en => lines[at + (IF fr THEN 3 ELSE 2)] = L_ContentEN \o chunk["Content (EN)"]
           /\ lines[at + BlockSize(chunk)] = <<>>

\* C9: while the writer runs, every unit it has passed has its file
\* <key>_unit_<NNN>.txt, NNN its position from 1, with the unit's layout; so
\* when the writer is done there is one such file per unit.
C9_OneFilePerUnit ==
  pc = "write" =>
    /\ \A j \in 1..w_i :
         Written(j) /\ HasLayout(fs.files[FileOf(j)], processed_units[j])
    /\ \A j, n \in 1..Len(processed_units) : j # n => FileOf(j) # FileOf(n)

\* The writer is done with three units: one without chunks, one with a
\* chunk that has only a French content, one with both contents.
C9_Witness ==
  /\ pc = "write" /\ w_i = Len(processed_units) /\ w_i = 3
  /\ \E j \in 1..w_i : processed_units[j].chunks = <<>>
  /\ \E j \in 1..w_i : \E c \in DOMAIN processed_units[j].chunks :
       /\ Shown(processed_units[j].chunks[c], "Content (FR)")
       /\ ~Shown(processed_units[j].chunks[c], "Content (EN)")
  /\ \E j \in 1..w_i : \E c \in DOMAIN processed_units[j].chunks :
       /\ Shown(processed_units[j].chunks[c], "Content (FR)")
       /\ Shown(processed_units[j].chunks[c], "Content (EN)")

\* The file at path is the same in two trees: absent in both, or equal.
SameFile(a, b, path) ==
  IF path \in DOMAIN a.files
  THEN path \in DOMAIN b.files /\ a.files[path] = b.files[path]
  ELSE path \notin DOMAIN b.files

\* C10, as a condition on every step. No exception leaves algorithm_main.
\* The except clause reports the failure, touches no file and returns with
\* nothing in flight. When writing a unit fails, the files of the units
\* before it are the ones written for them, and the files of the units
\* behind it are as they were when the call began. An unsupported extension
\* returns and touches no file. A call after a failed one writes its files
\* as any other.
C10_Step ==
  /\ ~propagated'
  /\ pc = "except" =>
       /\ fs' = fs
       /\ pc' = "idle" /\ exc' = "none"
       /\ log' = Append(log, "error")
  /\ (pc = "write" /\ pc' = "except") =>
       /\ \A j \in 1..w_i :
            /\ FileOf(j) \in DOMAIN fs'.files
            /\ HasLayout(fs'.files[FileOf(j)], processed_units[j])
       /\ \A j \in (w_i + 2)..Len(processed_units) : SameFile(fs', fs_at_call, FileOf(j))
  /\ (pc = "try" /\ file_extension \notin {EXT_JSON, EXT_CSV}) =>
       /\ fs' = fs
       /\ pc' = "idle"
       /\ log' = Append(log, "unsupported")
  /\ ("error" \in Range(log) /\ pc = "write" /\ pc' = "write") =>
       /\ FileOf(w_i') \in DOMAIN fs'.files
       /\ HasLayout(fs'.files[FileOf(w_i')], processed_units[w_i'])

\* C10: every failure inside a call is caught in algorithm_main: no exception
\* leaves it, the files written before the failure stay, and an unsupported
\* extension returns without creating anything.
C10_FailuresStayInside == [][C10_Step]_vars

\* A call failed and left one file behind; the next call has written its own.
C10_Witness ==
  /\ log = <<"error">>
  /\ pc = "write" /\ w_i = Len(processed_units)
  /\ Cardinality(DOMAIN fs_at_call.files) = 1
  /\ Cardinality(DOMAIN fs.files) = 2

====
